---- MODULE Spec2Model ----
(***************************************************************************)
(* A model of pynput's keyboard core: the HotKey state machine             *)
(* (keyboard/__init__.py) and the Controller's resolve / dispatch state    *)
(* machine with its modifier, caps-lock and dead-key state                 *)
(* (keyboard/_base.py).                                                    *)
(*                                                                         *)
(* A Python text value is a sequence of code points; a character is a      *)
(* text of length one.  A KeyCode is a record of its fields plus `oid`,    *)
(* the identity of the object: KeyCode defines no __eq__, so Python's ==   *)
(* and `in` on key codes compare identities.                               *)
(***************************************************************************)
EXTENDS Integers, Sequences, FiniteSets

VARIABLES
    \* HotKey
    keys,          \* HotKey._keys
    state,         \* HotKey._state
    activated,     \* number of on_activate() invocations made by the last call
    activations,   \* number of on_activate() invocations so far, counted up to a cap
    released,      \* keys release() was called with since the last on_activate()
    \* Controller
    modifiers,     \* Controller._modifiers
    caps_lock,     \* Controller._caps_lock
    dead_key,      \* Controller._dead_key
    block,         \* the arguments of the pressed(...) block being executed
    held,          \* Key members pressed through press() and not yet released
    dispatched,    \* the _dispatch(key, is_press) calls of the last operation
    handled,       \* the _handle(key, is_press) calls of the last operation that returned
    exc,           \* the exception the last operation raised
    \* GlobalHotKeys
    hotkeys,       \* GlobalHotKeys._hotkeys: the _keys and _state of each HotKey
    fired,         \* the on_activate() invocations of each hotkey made by the last event
    \* functions: KeyCode.join, HotKey.parse, the mouse Controller
    input,         \* the arguments of the function called
    output,        \* what the call returned, raised and emitted
    \* the keys held down through _handle
    down,          \* the key codes _handle pressed and has not released
    owed,          \* the keys press() was called with and release() was not
    \* the threads of a Controller
    lock,          \* Controller._modifiers_lock: its owner and its depth
    program,       \* what each thread has left to do of the operation it is in
    access,        \* the last step a thread made, and whether it held the lock
    \* all
    call           \* the last operation called, with its arguments

hotkeyVars == <<keys, state, activated, activations, released>>
controllerVars == <<modifiers, caps_lock, dead_key, block, held, dispatched, handled, exc>>
globalVars == <<hotkeys, fired>>
functionVars == <<input, output>>
pairVars == <<down, owed>>
lockVars == <<lock, program, access>>
vars == <<hotkeyVars, controllerVars, globalVars, functionVars, pairVars, lockVars, call>>

\* What a step of the HotKey, of the Controller, of the GlobalHotKeys
\* listener and of a function leaves alone.
nonHotKeyVars == <<controllerVars, globalVars, functionVars, pairVars, lockVars>>
nonControllerVars == <<hotkeyVars, globalVars, functionVars, pairVars, lockVars>>
nonGlobalVars == <<hotkeyVars, controllerVars, functionVars, pairVars, lockVars>>
nonFunctionVars == <<hotkeyVars, controllerVars, globalVars, pairVars, lockVars>>
nonPairVars == <<hotkeyVars, globalVars, functionVars, lockVars>>
nonLockVars == <<hotkeyVars, globalVars, functionVars, pairVars>>

-----------------------------------------------------------------------------
(* Bounds of the model *)

\* The longest string passed to Controller.press, release and type.
MaxStrLen == 2

\* The most key identifiers and separators a string passed to HotKey.parse is
\* made of.
MaxPieces == 4

\* The most values passed to the mouse Controller._check_bounds, and how far
\* from zero and from the ends of the short integer range the values lie.
MaxArgs == 2

\* The number of hotkeys registered with a GlobalHotKeys listener.
MaxHotKeys == 2
MouseMargin == 2

\* on_activate() invocations are counted up to this number.
MaxCounted == 2

-----------------------------------------------------------------------------
(* KeyCode *)

\* The value of a `char` that is None.
NoChar == <<"None">>

\* KeyCode.__init__: combining is looked up from the character of a dead key.
CombiningOf(char) ==
    CASE char = <<"~">> -> <<"U+0303">>
      [] char = <<"^">> -> <<"U+0302">>
      [] OTHER -> NoChar

KeyCode(vk, char, is_dead, oid) ==
    [vk |-> vk, char |-> char, is_dead |-> is_dead,
     combining |-> IF is_dead THEN CombiningOf(char) ELSE NoChar,
     oid |-> oid]

\* An object created by the call at hand: identical to no other object.
New == "new"

from_vk(vk) == KeyCode(vk, NoChar, FALSE, New)
from_char(char) == KeyCode(0, char, FALSE, New)
from_dead(char) == KeyCode(0, char, TRUE, New)

\* No key code: Python's None where a KeyCode is expected.
None == [vk |-> -1, char |-> NoChar, is_dead |-> FALSE, combining |-> NoChar,
         oid |-> "None"]

\* unicodedata.normalize('NFC', text) on the code points of the model: a base
\* letter followed by its combining mark composes, anything else stays.
NFC(text) ==
    CASE text = <<"a", "U+0303">> -> <<"U+00E3">>
      [] text = <<"A", "U+0303">> -> <<"U+00C3">>
      [] text = <<"a", "U+0302">> -> <<"U+00E2">>
      [] text = <<"A", "U+0302">> -> <<"U+00C2">>
      [] OTHER -> text

UpperOf(cp) ==
    CASE cp = "a" -> "A"
      [] cp = "U+00E3" -> "U+00C3"
      [] cp = "U+00E2" -> "U+00C2"
      [] OTHER -> cp

\* str.upper()
upper(text) == [i \in 1..Len(text) |-> UpperOf(text[i])]

\* KeyCode has no __eq__: == and `in` compare object identities.
Is(a, b) == a.oid = b.oid /\ a.oid # New

\* KeyCode.join: [ok |-> FALSE] stands for `raise ValueError(key)`.
join(self, key) ==
    IF key.char = <<" ">> \/ (key.is_dead /\ key.char = self.char)
    THEN [ok |-> TRUE, key |-> from_char(self.char)]
    ELSE IF key.char # NoChar /\ NFC(key.char \o self.combining) # <<>>
    THEN [ok |-> TRUE, key |-> from_char(NFC(key.char \o self.combining))]
    ELSE [ok |-> FALSE, key |-> key]

-----------------------------------------------------------------------------
(* Key *)

\* The members of Key the model uses.
Key == {"alt", "alt_l", "alt_r", "alt_gr", "cmd", "cmd_l", "cmd_r",
        "ctrl", "ctrl_l", "ctrl_r", "shift", "shift_l", "shift_r",
        "caps_lock", "enter", "space"}

\* The virtual key code the platform backend gives each member.
KeyVk ==
    [alt |-> 101, alt_l |-> 102, alt_r |-> 103, alt_gr |-> 104,
     cmd |-> 105, cmd_l |-> 106, cmd_r |-> 107,
     ctrl |-> 108, ctrl_l |-> 109, ctrl_r |-> 110,
     shift |-> 111, shift_l |-> 112, shift_r |-> 113,
     caps_lock |-> 114, enter |-> 115, space |-> 116]

\* Key.<name>.value: the key code object the platform backend gives the member.
KeyValue(name) ==
    KeyCode(KeyVk[name], IF name = "space" THEN <<" ">> ELSE NoChar, FALSE, name)

\* Controller._MODIFIER_KEYS
MODIFIER_KEYS ==
    << <<"alt_gr", <<"alt_gr">> >>,
       <<"alt",    <<"alt", "alt_l", "alt_r">> >>,
       <<"cmd",    <<"cmd", "cmd_l", "cmd_r">> >>,
       <<"ctrl",   <<"ctrl", "ctrl_l", "ctrl_r">> >>,
       <<"shift",  <<"shift", "shift_l", "shift_r">> >> >>

\* The base modifiers: the first value of each entry of _MODIFIER_KEYS.
BaseModifiers == {MODIFIER_KEYS[i][1] : i \in 1..Len(MODIFIER_KEYS)}

\* The members whose values entry i of _MODIFIER_KEYS lists.
VariantsAt(i) == {MODIFIER_KEYS[i][2][j] : j \in 1..Len(MODIFIER_KEYS[i][2])}

\* The members normalised to the base modifier m.
VariantsOf(m) ==
    UNION {VariantsAt(i) : i \in {n \in 1..Len(MODIFIER_KEYS) : MODIFIER_KEYS[n][1] = m}}

-----------------------------------------------------------------------------
(* Arguments and exceptions *)

\* What a caller passes as `key`: a Key member, a string, a KeyCode, or a
\* value of another type.
KeyArg(name) == [tag |-> "Key", name |-> name, text |-> <<>>, kc |-> None]
StrArg(text) == [tag |-> "str", name |-> "", text |-> text, kc |-> None]
KeyCodeArg(kc) == [tag |-> "KeyCode", name |-> "", text |-> <<>>, kc |-> kc]
OtherArg(name) == [tag |-> "other", name |-> name, text |-> <<>>, kc |-> None]
NoArg == [tag |-> "None", name |-> "", text |-> <<>>, kc |-> None]

\* No exception raised.
NoException == [type |-> "None", arg |-> NoArg, index |-> -1, char |-> NoChar]

ValueError(arg) == [type |-> "ValueError", arg |-> arg, index |-> -1, char |-> NoChar]

\* Reading an attribute of None.
AttributeError == [type |-> "AttributeError", arg |-> NoArg, index |-> -1, char |-> NoChar]

InvalidKeyException(arg) ==
    [type |-> "InvalidKeyException", arg |-> arg, index |-> -1, char |-> NoChar]

InvalidCharacterException(index, char) ==
    [type |-> "InvalidCharacterException", arg |-> NoArg, index |-> index, char |-> char]

-----------------------------------------------------------------------------
(* Controller *)

\* The code points the platform's _handle cannot emit: it fails with ValueError.
Untypable == {"#"}

\* The Controller's fields and what the operation at hand has done so far.
ControllerState ==
    [modifiers |-> modifiers, caps_lock |-> caps_lock, dead_key |-> dead_key,
     held |-> held, dispatched |-> <<>>, handled |-> <<>>, exc |-> NoException]

Raised(st) == st.exc # NoException

\* Controller.shift_pressed
shift_pressed(st) == st.caps_lock \/ "shift" \in st.modifiers

\* Controller.alt_pressed
alt_pressed(st) == "alt" \in st.modifiers

\* Controller.alt_gr_pressed
alt_gr_pressed(st) == "alt_gr" \in st.modifiers

\* Controller.ctrl_pressed
ctrl_pressed(st) == "ctrl" \in st.modifiers

\* Controller._as_modifier returning the member itself instead of its base.
as_modifier_variant(key) ==
    IF \E i \in 1..Len(MODIFIER_KEYS) : \E v \in VariantsAt(i) : Is(key, KeyValue(v))
    THEN key.oid
    ELSE "None"

\* Controller._as_modifier: the base of the first entry of _MODIFIER_KEYS whose
\* values hold the key, or "None".
as_modifier(key) ==
    LET hits == {i \in 1..Len(MODIFIER_KEYS) :
                    \E v \in VariantsAt(i) : Is(key, KeyValue(v))}
    IN IF hits = {} THEN "None"
       ELSE MODIFIER_KEYS[CHOOSE i \in hits : \A j \in hits : i <= j][1]

\* Controller._handle, the platform's emitter: the call is recorded, or fails
\* with ValueError for a key it cannot emit.
Handle(st, key, is_press) ==
    IF key.char # NoChar /\ \E i \in 1..Len(key.char) : key.char[i] \in Untypable
    THEN [st EXCEPT !.exc = ValueError(KeyCodeArg(key))]
    ELSE [st EXCEPT !.handled = Append(@, [key |-> key, is_press |-> is_press])]

\* Controller._dispatch dropping the pending dead key when the join fails,
\* instead of pressing and releasing it.
DispatchPress_drop(st, key) ==
    LET joined == join(st.dead_key, key)
        st3 == IF st.dead_key = None THEN st ELSE [st EXCEPT !.dead_key = None]
        key2 == IF st.dead_key # None /\ joined.ok THEN joined.key ELSE key
    IN IF key2.is_dead THEN [st3 EXCEPT !.dead_key = key2]
       ELSE Handle(st3, key2, TRUE)

\* Controller._dispatch leaving the dead key pending after a join.
DispatchPress_keep(st, key) ==
    LET joined == join(st.dead_key, key)
        flush1 == Handle(st, st.dead_key, TRUE)
        flush2 == IF Raised(flush1) THEN flush1 ELSE Handle(flush1, st.dead_key, FALSE)
        st3 == IF st.dead_key = None \/ joined.ok THEN st
               ELSE IF Raised(flush2) THEN flush2
               ELSE [flush2 EXCEPT !.dead_key = None]
        key2 == IF st.dead_key # None /\ joined.ok THEN joined.key ELSE key
    IN IF Raised(st3) THEN st3
       ELSE IF key2.is_dead THEN [st3 EXCEPT !.dead_key = key2]
       ELSE Handle(st3, key2, TRUE)

\* Controller._dispatch, lines 450-469: the press of a key that is not None.
DispatchPress(st, key) ==
    LET joined == join(st.dead_key, key)
        \* the dead key pressed and released by itself when the join fails
        flush1 == Handle(st, st.dead_key, TRUE)
        flush2 == IF Raised(flush1) THEN flush1 ELSE Handle(flush1, st.dead_key, FALSE)
        st3 == IF st.dead_key = None THEN st
               ELSE IF joined.ok THEN [st EXCEPT !.dead_key = None]
               ELSE IF Raised(flush2) THEN flush2
               ELSE [flush2 EXCEPT !.dead_key = None]
        key2 == IF st.dead_key # None /\ joined.ok THEN joined.key ELSE key
    IN IF Raised(st3) THEN st3
       ELSE IF key2.is_dead THEN [st3 EXCEPT !.dead_key = key2]
       ELSE Handle(st3, key2, TRUE)

\* Controller._dispatch toggling caps lock on the release of the key as well.
Dispatch_toggle_on_release(st0, key, is_press) ==
    LET st == [st0 EXCEPT !.dispatched = Append(@, [key |-> key, is_press |-> is_press])]
        modifier == as_modifier(key)
        st1 == IF modifier = "None" THEN st
               ELSE IF is_press
               THEN [st EXCEPT !.modifiers = @ \cup {modifier},
                               !.held = @ \cup {key.oid}]
               ELSE [st EXCEPT !.modifiers = @ \ {modifier},
                               !.held = @ \ {key.oid}]
        st2 == IF Is(key, KeyValue("caps_lock"))
               THEN [st1 EXCEPT !.caps_lock = ~@]
               ELSE st1
    IN IF key = None THEN [st EXCEPT !.exc = AttributeError]
       ELSE IF is_press THEN DispatchPress(st2, key)
       ELSE IF key.is_dead THEN st2
       ELSE Handle(st2, key, FALSE)

\* Controller._dispatch
Dispatch(st0, key, is_press) ==
    LET st == [st0 EXCEPT !.dispatched = Append(@, [key |-> key, is_press |-> is_press])]
        modifier == as_modifier(key)
        st1 == IF modifier = "None" THEN st
               ELSE IF is_press
               THEN [st EXCEPT !.modifiers = @ \cup {modifier},
                               !.held = @ \cup {key.oid}]
               ELSE [st EXCEPT !.modifiers = @ \ {modifier},
                               !.held = @ \ {key.oid}]
        st2 == IF is_press /\ Is(key, KeyValue("caps_lock"))
               THEN [st1 EXCEPT !.caps_lock = ~@]
               ELSE st1
    IN IF key = None THEN [st EXCEPT !.exc = AttributeError]
       ELSE IF is_press THEN DispatchPress(st2, key)
       ELSE IF key.is_dead THEN st1
       ELSE Handle(st1, key, FALSE)

\* Controller._resolve accepting the empty string.
Resolve_empty(st, arg) ==
    CASE arg.tag = "Key" -> [exc |-> NoException, key |-> KeyValue(arg.name)]
      [] arg.tag = "str" ->
            IF Len(arg.text) > 1
            THEN [exc |-> ValueError(arg), key |-> None]
            ELSE [exc |-> NoException, key |-> from_char(arg.text)]
      [] arg.tag = "KeyCode" ->
            IF arg.kc.char # NoChar /\ shift_pressed(st)
            THEN [exc |-> NoException, key |-> from_char(upper(arg.kc.char))]
            ELSE [exc |-> NoException, key |-> arg.kc]
      [] OTHER -> [exc |-> NoException, key |-> None]

\* Controller._resolve: the key code, None when the key is of no known kind,
\* or the ValueError raised.  `key in self._Key` is taken to be true of the
\* members of Key and false of every other value.
Resolve(st, arg) ==
    CASE arg.tag = "Key" -> [exc |-> NoException, key |-> KeyValue(arg.name)]
      [] arg.tag = "str" ->
            IF Len(arg.text) # 1
            THEN [exc |-> ValueError(arg), key |-> None]
            ELSE [exc |-> NoException, key |-> from_char(arg.text)]
      [] arg.tag = "KeyCode" ->
            IF arg.kc.char # NoChar /\ shift_pressed(st)
            THEN [exc |-> NoException, key |-> from_char(upper(arg.kc.char))]
            ELSE [exc |-> NoException, key |-> arg.kc]
      [] OTHER -> [exc |-> NoException, key |-> None]

\* Controller.press and Controller.release (touch): resolve, then dispatch.
Touch(st, arg, is_press) ==
    LET r == Resolve(st, arg)
    IN IF Raised(r) THEN [st EXCEPT !.exc = r.exc]
       ELSE Dispatch(st, r.key, is_press)

\* Controller.type from the character at index i - 1 on.
RECURSIVE TypeFrom(_, _, _)
TypeFrom(st, text, i) ==
    IF i > Len(text) THEN st
    ELSE LET character == <<text[i]>>
             pressed == Touch(st, StrArg(character), TRUE)
             done == IF Raised(pressed) THEN pressed
                     ELSE Touch(pressed, StrArg(character), FALSE)
         IN IF done.exc.type = "ValueError"
            THEN [done EXCEPT !.exc = InvalidCharacterException(i - 1, character)]
            ELSE IF Raised(done) THEN done
            ELSE TypeFrom(done, text, i + 1)

\* Controller.type going on with the next character after one that failed.
RECURSIVE TypeFromSkipping(_, _, _)
TypeFromSkipping(st, text, i) ==
    IF i > Len(text) THEN st
    ELSE LET character == <<text[i]>>
             pressed == Touch([st EXCEPT !.exc = NoException], StrArg(character), TRUE)
             done == IF Raised(pressed) THEN pressed
                     ELSE Touch(pressed, StrArg(character), FALSE)
             rest == TypeFromSkipping(done, text, i + 1)
         IN IF done.exc.type = "ValueError"
            THEN [rest EXCEPT !.exc = InvalidCharacterException(i - 1, character)]
            ELSE IF Raised(st) THEN [rest EXCEPT !.exc = st.exc]
            ELSE rest

Controller_type_skipping(st, text) == TypeFromSkipping(st, text, 1)

\* Controller.type pressing every character before releasing any.
RECURSIVE TouchAll(_, _, _, _)
TouchAll(st, text, i, is_press) ==
    IF i > Len(text) \/ Raised(st) THEN st
    ELSE TouchAll(Touch(st, StrArg(<<text[i]>>), is_press), text, i + 1, is_press)

Controller_type_batched(st, text) == TouchAll(TouchAll(st, text, 1, TRUE), text, 1, FALSE)

\* Controller.type
Controller_type(st, text) == TypeFrom(st, text, 1)

\* Controller.pressed, lines 352-353 and 358-359: press each key of args, in
\* the order of the indices `order`, up to the first press that raises.
RECURSIVE PressEach(_, _, _)
PressEach(st, args, order) ==
    IF order = <<>> \/ Raised(st) THEN st
    ELSE PressEach(Touch(st, args[Head(order)], TRUE), args, Tail(order))

\* for key in args
Forward(args) == [i \in 1..Len(args) |-> i]

\* for key in reversed(args)
Reversed(args) == [i \in 1..Len(args) |-> Len(args) + 1 - i]

\* Controller.pressed up to the yield.
pressed_enter(st, args) == PressEach(st, args, Forward(args))

\* Controller.pressed, the finally clause.
pressed_exit(st, args) == PressEach(st, args, Reversed(args))

-----------------------------------------------------------------------------
(* HotKey *)

\* The keys a HotKey is built from and fed with: Key members and key codes,
\* each a distinct hashable value.
HotKeyUniverse == {"ctrl", "shift", "t", "x"}

\* HotKey.press without the `key not in self._state` test.
HotKey_press_refire(ks, st, key) ==
    IF key \in ks
    THEN [state |-> st \cup {key},
          activated |-> IF st \cup {key} = ks THEN 1 ELSE 0]
    ELSE [state |-> st, activated |-> 0]

\* HotKey.press with the key added whether it belongs to the combination or not.
HotKey_press_any(ks, st, key) ==
    IF key \notin st
    THEN [state |-> st \cup {key},
          activated |-> IF st \cup {key} = ks THEN 1 ELSE 0]
    ELSE [state |-> st, activated |-> 0]

\* HotKey.press: the new _state and the number of on_activate() calls made.
HotKey_press(ks, st, key) ==
    IF key \in ks /\ key \notin st
    THEN [state |-> st \cup {key},
          activated |-> IF st \cup {key} = ks THEN 1 ELSE 0]
    ELSE [state |-> st, activated |-> 0]

\* HotKey.release: the new _state.
HotKey_release(st, key) ==
    IF key \in st THEN st \ {key} ELSE st

\* HotKey.__init__
HotKeyInit ==
    /\ keys \in SUBSET HotKeyUniverse
    /\ state = {}
    /\ activated = 0
    /\ activations = 0
    /\ released = {}
    /\ call = [op |-> "init", key |-> "none"]

HotKeyPress(key) ==
    LET r == HotKey_press(keys, state, key) IN
    /\ state' = r.state
    /\ activated' = r.activated
    /\ activations' = IF activations + r.activated > MaxCounted
                       THEN MaxCounted ELSE activations + r.activated
    /\ released' = IF r.activated > 0 THEN {} ELSE released
    /\ call' = [op |-> "press", key |-> key]
    /\ UNCHANGED keys

HotKeyRelease(key) ==
    /\ state' = HotKey_release(state, key)
    /\ activated' = 0
    /\ released' = released \cup {key}
    /\ call' = [op |-> "release", key |-> key]
    /\ UNCHANGED <<keys, activations>>

-----------------------------------------------------------------------------
(* The HotKey alone: any sequence of press and release calls *)

\* The Controller is not used.
ControllerIdle ==
    /\ modifiers = {}
    /\ caps_lock = FALSE
    /\ dead_key = None
    /\ block = [active |-> FALSE, args |-> <<>>, before |-> {}, touched |-> {}]
    /\ held = {}
    /\ dispatched = <<>>
    /\ handled = <<>>
    /\ exc = NoException

\* No GlobalHotKeys listener.
GlobalIdle == hotkeys = <<>> /\ fired = <<>>

\* No function called.
FunctionIdle == input = <<>> /\ output = <<>>

\* No key held down through _handle is tracked.
PairIdle == down = {} /\ owed = {}

\* One thread: the lock is free and nothing is in progress.
NoAccess == [thread |-> "none", op |-> "none", field |-> "none", locked |-> FALSE]

LockIdle ==
    /\ lock = [owner |-> "none", count |-> 0]
    /\ program = [caller |-> <<>>, reader |-> <<>>]
    /\ access = NoAccess

InitHotKey ==
    /\ HotKeyInit /\ ControllerIdle /\ GlobalIdle /\ FunctionIdle
    /\ PairIdle /\ LockIdle

NextHotKey ==
    \E key \in HotKeyUniverse :
        \/ HotKeyPress(key) /\ UNCHANGED nonHotKeyVars
        \/ HotKeyRelease(key) /\ UNCHANGED nonHotKeyVars

SpecHotKey == InitHotKey /\ [][NextHotKey]_vars

\* C1: on_activate is invoked during press(k) if and only if k is in keys, k
\* was not in the state before the call and adding k makes the state equal to
\* keys; then it is invoked exactly once; it is never invoked during release.
C1_ActivateIffCompletes ==
    [][ /\ call'.op = "press" =>
            /\ activated' \in {0, 1}
            /\ activated' = 1 <=>
                  /\ call'.key \in keys
                  /\ call'.key \notin state
                  /\ state \cup {call'.key} = keys
        /\ call'.op = "release" => activated' = 0 ]_vars

C1_Witness ==
    /\ call.op = "press"
    /\ activated = 1
    /\ Cardinality(keys) = 3
    /\ state = keys

\* C2: between two consecutive invocations of on_activate there is a release
\* of a key of the combination followed by a press of that key; pressing an
\* already pressed key never fires; releasing one key of a fully pressed
\* combination and pressing it again fires again.
C2_RefireNeedsReleaseAndPress ==
    [][ /\ (call'.op = "press" /\ activated' > 0 /\ activations > 0) =>
            (call'.key \in released /\ call'.key \in keys)
        /\ (call'.op = "press" /\ call'.key \in state) => activated' = 0
        /\ ( /\ call.op = "release" /\ call.key \in keys
             /\ state = keys \ {call.key}
             /\ call'.op = "press" /\ call'.key = call.key ) => activated' = 1
      ]_vars

C2_Witness ==
    /\ call.op = "press"
    /\ activated = 1
    /\ activations >= 2
    /\ Cardinality(keys) = 3
    /\ released = {}

\* C3: the state is always a subset of keys; a press of a key outside keys
\* and a release of a key not in the state leave the state unchanged.
C3_StateSubsetOfKeys ==
    /\ [](state \subseteq keys)
    /\ [][ /\ (call'.op = "press" /\ call'.key \notin keys) => state' = state
           /\ (call'.op = "release" /\ call'.key \notin state) => state' = state
         ]_vars

C3_Witness ==
    /\ call.op = "press"
    /\ call.key \notin keys
    /\ state # {}
    /\ state # keys

-----------------------------------------------------------------------------
(* The Controller: any sequence of press, release, type and pressed(...) *)

\* The code points of the strings passed in.
Alphabet == {"a", " ", "#"}

\* The strings of at most MaxStrLen characters.
Strings == UNION {[1..n -> Alphabet] : n \in 0..MaxStrLen}

\* The keys passed to press and release.
Args ==
    {KeyArg(k) : k \in {"shift_l", "shift_r", "ctrl_l", "alt", "caps_lock", "enter"}}
    \cup {StrArg(s) : s \in Strings}
    \cup {KeyCodeArg(from_char(<<"a">>)), KeyCodeArg(from_dead(<<"~">>)),
          KeyCodeArg(from_dead(<<"^">>)), KeyCodeArg(KeyValue("shift"))}
    \cup {OtherArg("None"), OtherArg("int")}

\* The keys pressed and released around and between calls of type.
TypeArgs ==
    {KeyArg("shift_l"), KeyArg("alt"), KeyArg("caps_lock"), KeyArg("enter"),
     KeyCodeArg(from_dead(<<"~">>))}

\* The argument lists passed to pressed(...).
BlockArgs ==
    {<<KeyArg("shift_l")>>,
     <<KeyArg("ctrl_l"), KeyArg("alt")>>,
     <<KeyArg("shift_r"), StrArg(<<"a">>)>>,
     <<KeyArg("alt"), StrArg(<<"#">>)>>}

\* The keys pressed and released before, inside and after a pressed(...) block.
BodyArgs ==
    {KeyArg("shift_l"), KeyArg("alt"), StrArg(<<"a">>), KeyCodeArg(from_dead(<<"~">>))}

NoBlock == [active |-> FALSE, args |-> <<>>, before |-> {}, touched |-> {}]

\* `pending` is the dead key that was pending when the operation was called;
\* `tick` alternates so that two equal calls in a row are two states.
NoCall == [op |-> "init", arg |-> NoArg, text |-> <<>>, args |-> <<>>, pending |-> None,
           tick |-> 0]

\* Controller.__init__
ControllerInit ==
    /\ modifiers = {}
    /\ caps_lock = FALSE
    /\ dead_key = None
    /\ block = NoBlock
    /\ held = {}
    /\ dispatched = <<>>
    /\ handled = <<>>
    /\ exc = NoException
    /\ call = NoCall

\* The state an operation leaves.
Becomes(st) ==
    /\ modifiers' = st.modifiers
    /\ caps_lock' = st.caps_lock
    /\ dead_key' = st.dead_key
    /\ held' = st.held
    /\ dispatched' = st.dispatched
    /\ handled' = st.handled
    /\ exc' = st.exc

\* The base modifiers the _dispatch calls of an operation add or remove.
Touched(st) ==
    {as_modifier(st.dispatched[i].key) : i \in 1..Len(st.dispatched)} \ {"None"}

\* Inside a pressed(...) block, the modifiers the block's body touches.
BlockAfter(st) ==
    IF block.active THEN [block EXCEPT !.touched = @ \cup Touched(st)] ELSE block

ControllerPress(arg) ==
    LET st == Touch(ControllerState, arg, TRUE) IN
    /\ Becomes(st)
    /\ block' = BlockAfter(st)
    /\ call' = [NoCall EXCEPT !.op = "press", !.arg = arg, !.pending = dead_key,
                              !.tick = 1 - call.tick]

ControllerRelease(arg) ==
    LET st == Touch(ControllerState, arg, FALSE) IN
    /\ Becomes(st)
    /\ block' = BlockAfter(st)
    /\ call' = [NoCall EXCEPT !.op = "release", !.arg = arg, !.pending = dead_key,
                              !.tick = 1 - call.tick]

ControllerType(text) ==
    LET st == Controller_type(ControllerState, text) IN
    /\ Becomes(st)
    /\ block' = BlockAfter(st)
    /\ call' = [NoCall EXCEPT !.op = "type", !.text = text, !.pending = dead_key,
                              !.tick = 1 - call.tick]

\* with controller.pressed(*args): the block is entered unless a press raises.
ControllerPressedEnter(args) ==
    LET st == pressed_enter(ControllerState, args) IN
    /\ ~block.active
    /\ Becomes(st)
    /\ block' = IF Raised(st) THEN NoBlock
                ELSE [active |-> TRUE, args |-> args, before |-> modifiers,
                      touched |-> {}]
    /\ call' = [NoCall EXCEPT !.op = "pressed_enter", !.args = args, !.pending = dead_key,
                              !.tick = 1 - call.tick]

\* The block is left, by its end or by an exception of its body.
ControllerPressedExit ==
    LET st == pressed_exit(ControllerState, block.args) IN
    /\ block.active
    /\ Becomes(st)
    /\ block' = [block EXCEPT !.active = FALSE]
    /\ call' = [NoCall EXCEPT !.op = "pressed_exit", !.args = block.args, !.pending = dead_key,
                              !.tick = 1 - call.tick]

\* No HotKey.
HotKeyIdle ==
    keys = {} /\ state = {} /\ activated = 0 /\ activations = 0 /\ released = {}

InitController ==
    /\ ControllerInit /\ HotKeyIdle /\ GlobalIdle /\ FunctionIdle
    /\ PairIdle /\ LockIdle

NextController ==
    \/ \E arg \in Args : ControllerPress(arg) /\ UNCHANGED nonControllerVars
    \/ \E arg \in Args : ControllerRelease(arg) /\ UNCHANGED nonControllerVars

SpecController == InitController /\ [][NextController]_vars

NextType ==
    \/ \E arg \in TypeArgs : ControllerPress(arg) /\ UNCHANGED nonControllerVars
    \/ \E arg \in TypeArgs : ControllerRelease(arg) /\ UNCHANGED nonControllerVars
    \/ \E text \in Strings : ControllerType(text) /\ UNCHANGED nonControllerVars

SpecType == InitController /\ [][NextType]_vars

NextPressed ==
    \/ \E arg \in BodyArgs : ControllerPress(arg) /\ UNCHANGED nonControllerVars
    \/ \E arg \in BodyArgs : ControllerRelease(arg) /\ UNCHANGED nonControllerVars
    \/ \E args \in BlockArgs : ControllerPressedEnter(args) /\ UNCHANGED nonControllerVars
    \/ ControllerPressedExit /\ UNCHANGED nonControllerVars

SpecPressed == InitController /\ [][NextPressed]_vars

-----------------------------------------------------------------------------
(* Claims about the Controller *)

\* The key code _resolve gives a Key member or a one-character string.
ResolvedKey(arg) ==
    IF arg.tag = "Key" THEN KeyValue(arg.name) ELSE from_char(arg.text)

\* press(c1), release(c1), press(c2), release(c2), ... for the characters of text.
PressReleasePairs(text) ==
    [n \in 1..(2 * Len(text)) |->
        [key |-> from_char(<<text[(n + 1) \div 2]>>), is_press |-> (n % 2 = 1)]]

\* C4: pressed(k1, ..., kn) presses k1..kn in order on entry and, when the
\* block is left, dispatches a release of each key in reverse order kn..k1; a
\* modifier held only by the block is then no longer in the modifier set.
C4_PressedReleasesInReverse ==
    /\ (call.op = "pressed_enter" /\ exc = NoException) =>
          /\ Len(dispatched) = Len(call.args)
          /\ \A i \in 1..Len(call.args) :
                dispatched[i] = [key |-> ResolvedKey(call.args[i]), is_press |-> TRUE]
    /\ call.op = "pressed_exit" =>
          /\ Len(dispatched) = Len(call.args)
          /\ \A i \in 1..Len(call.args) :
                dispatched[i] = [key |-> ResolvedKey(call.args[Len(call.args) + 1 - i]),
                                 is_press |-> FALSE]
          /\ \A i \in 1..Len(call.args) :
                LET m == as_modifier(ResolvedKey(call.args[i]))
                IN (m # "None" /\ m \notin block.before /\ m \notin block.touched)
                      => m \notin modifiers

\* The entry half of C4, which the code satisfies.
C4_PressesInOrderOnEntry ==
    (call.op = "pressed_enter" /\ exc = NoException) =>
        /\ Len(dispatched) = Len(call.args)
        /\ \A i \in 1..Len(call.args) :
              dispatched[i] = [key |-> ResolvedKey(call.args[i]), is_press |-> TRUE]

\* A block holding shift alone has been left.
C4_Witness ==
    /\ call.op = "pressed_exit"
    /\ call.args = <<KeyArg("shift_l")>>
    /\ "shift" \notin block.before
    /\ "shift" \notin block.touched

\* C5: alt_pressed, ctrl_pressed and shift_pressed are true whenever a variant
\* of the modifier has been pressed and not yet released, shift_pressed also
\* whenever caps lock is on.
C5_PressedWhileAnyVariantHeld ==
    /\ (held \cap VariantsOf("alt") # {}) => alt_pressed(ControllerState)
    /\ (held \cap VariantsOf("ctrl") # {}) => ctrl_pressed(ControllerState)
    /\ (held \cap VariantsOf("shift") # {}) => shift_pressed(ControllerState)
    /\ caps_lock => shift_pressed(ControllerState)

\* shift_r is still held after the release of shift_l.
C5_Witness ==
    /\ call.op = "release"
    /\ call.arg = KeyArg("shift_l")
    /\ held = {"shift_r"}
    /\ ~caps_lock
    /\ ~shift_pressed(ControllerState)

\* C6: pressing a variant of a modifier puts the base modifier into the
\* modifier set, and the modifier set holds only alt_gr, alt, cmd, ctrl, shift.
C6_ModifiersAreNormalised ==
    /\ modifiers \subseteq {"alt_gr", "alt", "cmd", "ctrl", "shift"}
    /\ \A m \in {"alt_gr", "alt", "cmd", "ctrl", "shift"} :
          (call.op = "press" /\ call.arg.tag = "Key" /\ call.arg.name \in VariantsOf(m))
             => m \in modifiers
    /\ (call.op = "press" /\ call.arg = KeyArg("shift_l"))
          => shift_pressed(ControllerState)

\* shift_pressed after the press of shift_l alone.
C6_Witness ==
    /\ call.op = "press"
    /\ call.arg = KeyArg("shift_l")
    /\ held = {"shift_l"}
    /\ ~caps_lock
    /\ shift_pressed(ControllerState)

\* C7: press and release of a key of no known kind fail with
\* InvalidKeyException(key), call no _handle and change no state.
C7_InvalidKeyException ==
    [][ (call'.op \in {"press", "release"} /\ call'.arg.tag = "other") =>
            /\ exc' = InvalidKeyException(call'.arg)
            /\ handled' = <<>>
            /\ UNCHANGED <<modifiers, caps_lock, dead_key>> ]_vars

\* A key of no known kind was pressed with a dead key pending.
C7_Witness ==
    /\ call.op = "press"
    /\ call.arg.tag = "other"
    /\ dead_key # None

\* C8: press and release of a string whose length is not 1 fail with
\* ValueError before any effect: no _dispatch, no _handle, no state change.
C8_ValueErrorForLongString ==
    [][ ( /\ call'.op \in {"press", "release"}
          /\ call'.arg.tag = "str"
          /\ Len(call'.arg.text) # 1 ) =>
            /\ exc' = ValueError(call'.arg)
            /\ dispatched' = <<>>
            /\ handled' = <<>>
            /\ UNCHANGED <<modifiers, caps_lock, dead_key>> ]_vars

C8_Witness ==
    /\ call.op = "press"
    /\ call.arg.tag = "str"
    /\ Len(call.arg.text) = 2
    /\ exc.type = "ValueError"
    /\ dead_key # None
    /\ modifiers # {}

\* C9 as stated: when no character fails, the _handle calls of type(string)
\* are press(c1), release(c1), press(c2), release(c2), ...
C9_HandledPairsAlways ==
    (call.op = "type" /\ exc = NoException) => handled = PressReleasePairs(call.text)

\* C9, amended: when no character fails, the _dispatch calls of type(string)
\* are press(c1), release(c1), press(c2), release(c2), ..., and so are the
\* _handle calls when no dead key is pending at the call.
C9_DispatchedPairs ==
    [][ (call'.op = "type" /\ exc' = NoException) =>
            /\ dispatched' = PressReleasePairs(call'.text)
            /\ dead_key = None => handled' = PressReleasePairs(call'.text) ]_vars

C9_Witness ==
    /\ call.op = "type"
    /\ Len(call.text) = 2
    /\ exc = NoException
    /\ "shift" \in modifiers
    /\ handled = PressReleasePairs(call.text)

\* C10: when the character at index i is the first that fails, type raises
\* InvalidCharacterException(i, character), dispatches nothing for a later
\* character and leaves the pairs of the earlier characters emitted.
C10_TypeStopsAtFirstFailure ==
    call.op = "type" =>
        /\ exc.type = "InvalidCharacterException"
              <=> \E j \in 1..Len(call.text) : call.text[j] \in Untypable
        /\ exc.type = "InvalidCharacterException" =>
              /\ exc.index \in 0..(Len(call.text) - 1)
              /\ exc.char = <<call.text[exc.index + 1]>>
              /\ call.text[exc.index + 1] \in Untypable
              /\ \A j \in 1..exc.index : call.text[j] \notin Untypable
              /\ Len(dispatched) <= 2 * (exc.index + 1)
              /\ \A n \in 1..Len(dispatched) :
                    dispatched[n] = PressReleasePairs(call.text)[n]
              /\ Len(handled) = 2 * exc.index
              /\ \A j \in 1..exc.index :
                    /\ handled[2 * j - 1].is_press
                    /\ j > 1 => handled[2 * j - 1] = PressReleasePairs(call.text)[2 * j - 1]
                    /\ handled[2 * j] = PressReleasePairs(call.text)[2 * j]

C10_Witness ==
    /\ call.op = "type"
    /\ exc = InvalidCharacterException(1, <<"#">>)
    /\ Len(handled) = 2

\* C11: when a dead key d is pending and a key k that cannot be joined with it
\* is pressed, nothing is raised, _handle is called with (d, press),
\* (d, release), (k, press) in that order, and no dead key is pending after.
C11_UnjoinableFlushesDeadKey ==
    [][ ( /\ call'.op = "press"
          /\ call'.arg.tag \in {"Key", "KeyCode"}
          /\ dead_key # None
          /\ Len(dispatched') = 1
          /\ ~join(dead_key, dispatched'[1].key).ok ) =>
            /\ exc' = NoException
            /\ handled' = << [key |-> dead_key, is_press |-> TRUE],
                             [key |-> dead_key, is_press |-> FALSE],
                             [key |-> dispatched'[1].key, is_press |-> TRUE] >>
            /\ dead_key' = None ]_vars

C11_Witness ==
    /\ call.op = "press"
    /\ call.arg = KeyArg("enter")
    /\ call.pending = from_dead(<<"~">>)
    /\ Len(handled) = 3
    /\ dead_key = None

\* C13: the same dead key pressed twice in a row, with no dead key pending
\* before, makes exactly one _handle call, the press of the non-dead key with
\* the dead key's character, and leaves no dead key pending.
C13_DeadKeyTwice ==
    [][ ( /\ call.op = "press"
          /\ call.arg.tag = "KeyCode"
          /\ call.arg.kc.is_dead
          /\ call.pending = None
          /\ call'.op = "press"
          /\ call'.arg = call.arg ) =>
            /\ handled \o handled' =
                  << [key |-> from_char(call.arg.kc.char), is_press |-> TRUE] >>
            /\ dead_key' = None ]_vars

\* The second press of the dead key, with shift held.
C13_Witness ==
    /\ call.op = "press"
    /\ call.arg = KeyCodeArg(from_dead(<<"~">>))
    /\ call.pending = None
    /\ "shift" \in modifiers
    /\ Len(handled) = 1

\* C19: the press of a dead key when no dead key is pending stores it as the
\* pending dead key and calls no _handle, whatever the modifiers and caps lock.
C19_DeadKeyIsStashed ==
    [][ ( /\ call'.op = "press"
          /\ call'.arg.tag = "KeyCode"
          /\ call'.arg.kc.is_dead
          /\ dead_key = None ) =>
            /\ exc' = NoException
            /\ handled' = <<>>
            /\ dead_key' = call'.arg.kc ]_vars

\* A dead key was pressed with caps lock on and nothing pending.
C19_Witness ==
    /\ call.op = "press"
    /\ call.arg = KeyCodeArg(from_dead(<<"~">>))
    /\ call.pending = None
    /\ caps_lock
    /\ modifiers = {}

\* The first half of C20: _handle is called with the release of a dead key
\* only as the second call of the flush pair of a press.
C20_DeadReleaseOnlyInFlush ==
    \A i \in 1..Len(handled) :
        (handled[i].key.is_dead /\ ~handled[i].is_press) =>
            /\ i = 2
            /\ call.op = "press"
            /\ handled[1] = [key |-> handled[2].key, is_press |-> TRUE]
            /\ handled[2].key = call.pending

\* C20: _handle is called with the release of a dead key only as the second
\* call of the flush pair; the release of a dead key calls nothing and leaves
\* the pending dead key in place.
C20_DeadKeyNeverReleased ==
    /\ []C20_DeadReleaseOnlyInFlush
    /\ [][ ( /\ call'.op = "release"
             /\ call'.arg.tag = "KeyCode"
             /\ call'.arg.kc.is_dead ) =>
               /\ handled' = <<>>
               /\ dead_key' = dead_key ]_vars

\* A dead key was released with shift held.
C20_Witness ==
    /\ call.op = "release"
    /\ call.arg = KeyCodeArg(from_dead(<<"~">>))
    /\ "shift" \in modifiers
    /\ handled # <<>>

\* The part of C21 that holds: with shift_pressed true, a KeyCode that has a
\* character is dispatched as the key of its upper-case character; otherwise
\* the KeyCode itself is dispatched.
C21_UpperWhenShiftPressed ==
    [][ (call'.op \in {"press", "release"} /\ call'.arg.tag = "KeyCode") =>
          /\ Len(dispatched') = 1
          /\ IF (caps_lock \/ "shift" \in modifiers) /\ call'.arg.kc.char # NoChar
             THEN dispatched'[1].key = from_char(upper(call'.arg.kc.char))
             ELSE dispatched'[1].key = call'.arg.kc ]_vars

\* C21: with a shift variant held or caps lock on, the press or release of a
\* KeyCode that has a character dispatches the upper-case form of the
\* character; otherwise the KeyCode is dispatched unchanged.
C21_UpperWhenShiftHeld ==
    [][ (call'.op \in {"press", "release"} /\ call'.arg.tag = "KeyCode") =>
          /\ Len(dispatched') = 1
          /\ IF /\ caps_lock \/ held \cap {"shift", "shift_l", "shift_r"} # {}
                /\ call'.arg.kc.char # NoChar
             THEN dispatched'[1].key.char = upper(call'.arg.kc.char)
             ELSE dispatched'[1].key = call'.arg.kc ]_vars

\* The key 'a' was pressed with shift_r held and dispatched in lower case.
C21_Witness ==
    /\ call.op = "press"
    /\ call.arg = KeyCodeArg(from_char(<<"a">>))
    /\ held = {"shift_r"}
    /\ ~caps_lock
    /\ dispatched = << [key |-> from_char(<<"a">>), is_press |-> TRUE] >>

\* C22: the caps-lock flag starts false, is toggled by every dispatched press
\* of the caps-lock key and is left unchanged by its release and by the press
\* and release of every other key, so it is true exactly after an odd number
\* of caps-lock presses.
C22_CapsLockToggles ==
    /\ ~caps_lock
    /\ [][ call'.op \in {"press", "release"} =>
              LET toggles == \E i \in 1..Len(dispatched') :
                                /\ dispatched'[i].is_press
                                /\ dispatched'[i].key.vk = KeyVk["caps_lock"]
              IN caps_lock' = (caps_lock # toggles) ]_vars

\* Caps lock is on after the release of the caps-lock key.
C22_Witness ==
    /\ call.op = "release"
    /\ call.arg = KeyArg("caps_lock")
    /\ caps_lock
    /\ Len(dispatched) = 1

\* C26: with a dead key pending, the press of any key leaves no dead key
\* pending, and a release never changes the pending dead key.
C26_PendingConsumedByNextPress ==
    [][ /\ ( /\ dead_key # None
             /\ call'.op = "press"
             /\ \/ call'.arg.tag \in {"Key", "KeyCode"}
                \/ call'.arg.tag = "str" /\ Len(call'.arg.text) = 1 )
            => dead_key' = None
        /\ call'.op = "release" => dead_key' = dead_key ]_vars

\* Another dead key was pressed with a dead key pending.
C26_Witness ==
    /\ call.op = "press"
    /\ call.arg = KeyCodeArg(from_dead(<<"^">>))
    /\ call.pending = from_dead(<<"~">>)
    /\ dead_key = None
    /\ Len(handled) = 1

\* A dead key stayed pending over a release.
C26_WitnessRelease ==
    /\ call.op = "release"
    /\ call.pending = from_dead(<<"~">>)
    /\ dead_key = from_dead(<<"~">>)

-----------------------------------------------------------------------------
(* KeyCode.join as a function *)

\* The dead keys joined and the keys they are joined with.
JoinDeadKeys == {from_dead(<<"~">>), from_dead(<<"^">>)}

JoinKeys ==
    {from_char(<<c>>) : c \in {"a", "A", " ", "~", "^", "#", "U+00E3"}}
        \cup JoinDeadKeys
        \cup {from_vk(vk) : vk \in {0, 1, 65}}
        \cup {KeyValue(name) : name \in Key}

\* The operands of `self.join(key) == KeyCode.from_char(self.char)`.
KeyCodeInit ==
    /\ input \in {<<self, key>> : self \in JoinDeadKeys, key \in JoinKeys}
    /\ output = <<>>
    /\ call = [op |-> "init"]

\* `self.join(key)`, and the result compared with `==` to an independently
\* constructed KeyCode.from_char(self.char).
KeyCodeJoin ==
    /\ output = <<>>
    /\ LET joined == join(input[1], input[2])
       IN output' = << [ok |-> joined.ok, key |-> joined.key,
                        equal |-> joined.ok /\ Is(joined.key, from_char(input[1].char))] >>
    /\ call' = [op |-> "join"]
    /\ UNCHANGED input

InitKeyCode ==
    /\ KeyCodeInit /\ HotKeyIdle /\ ControllerIdle /\ GlobalIdle
    /\ PairIdle /\ LockIdle

NextKeyCode == KeyCodeJoin /\ UNCHANGED nonFunctionVars

SpecKeyCode == InitKeyCode /\ [][NextKeyCode]_vars

\* The part of C12 about the fields: a dead key joined with the space key is
\* a non-dead key with the dead key's character.
C12_JoinWithSpaceFields ==
    (call.op = "join" /\ input[2] = from_char(<<" ">>)) =>
        /\ output[1].ok
        /\ ~output[1].key.is_dead
        /\ output[1].key.char = input[1].char

\* C12: for every dead key d, d.join(from_char(' ')) is non-dead, has the
\* character of d, and compares equal (==) to an independently constructed
\* from_char(d.char).
C12_JoinWithSpaceEquals ==
    (call.op = "join" /\ input[2] = from_char(<<" ">>)) =>
        /\ C12_JoinWithSpaceFields
        /\ output[1].equal

C12_Witness ==
    /\ call.op = "join"
    /\ input = <<from_dead(<<"~">>), from_char(<<" ">>)>>
    /\ output[1].ok
    /\ output[1].key.char = <<"~">>

-----------------------------------------------------------------------------
(* HotKey.parse *)

\* str.lower() on the code points of the model.
LowerOf(cp) ==
    CASE cp = "A" -> "a"
      [] cp = "C" -> "c"
      [] cp = "L" -> "l"
      [] cp = "R" -> "r"
      [] cp = "T" -> "t"
      [] OTHER -> cp

lower(text) == [i \in 1..Len(text) |-> LowerOf(text[i])]

\* Key[name]: the member of that name, "" standing for KeyError.
KeyNamed(text) ==
    CASE text = <<"c", "t", "r", "l">> -> "ctrl"
      [] text = <<"e", "n", "t", "e", "r">> -> "enter"
      [] OTHER -> ""

\* int(text) for the decimal digits of the model: -1 stands for ValueError.
DigitOf(cp) ==
    CASE cp = "0" -> 0
      [] cp = "1" -> 1
      [] cp = "2" -> 2
      [] OTHER -> -1

RECURSIVE int(_)
int(text) ==
    IF text = <<>> THEN -1
    ELSE IF DigitOf(text[Len(text)]) < 0 THEN -1
    ELSE IF Len(text) = 1 THEN DigitOf(text[1])
    ELSE LET high == int(SubSeq(text, 1, Len(text) - 1))
         IN IF high < 0 THEN -1 ELSE 10 * high + DigitOf(text[Len(text)])

\* The values of _NORMAL_MODIFIERS: the base modifiers.
NORMAL_MODIFIERS_values == BaseModifiers

\* The loop of a split at every '+', a '+' that starts a part included.
RECURSIVE partsLoop_split(_, _, _, _)
partsLoop_split(string, start, i, acc) ==
    IF i > Len(string)
    THEN [ok |-> TRUE, parts |-> Append(acc, SubSeq(string, start, Len(string)))]
    ELSE IF string[i] = "+"
    THEN partsLoop_split(string, i + 1, i + 1, Append(acc, SubSeq(string, start, i - 1)))
    ELSE partsLoop_split(string, start, i + 1, acc)

parts_split(string) == partsLoop_split(string, 1, 1, <<>>)

\* The loop of parts() from character i on, with the current part starting at
\* `start` and the parts yielded so far in `acc`; positions count from 1.
RECURSIVE partsLoop(_, _, _, _)
partsLoop(string, start, i, acc) ==
    IF i > Len(string)
    THEN IF start = Len(string) + 1
         THEN [ok |-> FALSE, parts |-> acc]
         ELSE [ok |-> TRUE, parts |-> Append(acc, SubSeq(string, start, Len(string)))]
    ELSE IF string[i] = "+" /\ i # start
    THEN partsLoop(string, i + 1, i + 1, Append(acc, SubSeq(string, start, i - 1)))
    ELSE partsLoop(string, start, i + 1, acc)

\* parts() of HotKey.parse: [ok |-> FALSE] stands for `raise ValueError(keys)`.
parts(string) == partsLoop(string, 1, 1, <<>>)

\* parse(s) of HotKey.parse: the key of one part, a Key member or a KeyCode.
parse(s) ==
    IF Len(s) = 1
    THEN [ok |-> TRUE, key |-> KeyCodeArg(from_char(lower(s)))]
    ELSE IF Len(s) > 2 /\ s[1] = "<" /\ s[Len(s)] = ">"
    THEN LET p == SubSeq(s, 2, Len(s) - 1)
             name == KeyNamed(lower(p))
         IN IF name # ""
            THEN IF name \in NORMAL_MODIFIERS_values
                 THEN [ok |-> TRUE, key |-> KeyArg(name)]
                 ELSE [ok |-> TRUE, key |-> KeyCodeArg(from_vk(KeyValue(name).vk))]
            ELSE IF int(p) >= 0
                 THEN [ok |-> TRUE, key |-> KeyCodeArg(from_vk(int(p)))]
                 ELSE [ok |-> FALSE, key |-> NoArg]
    ELSE [ok |-> FALSE, key |-> NoArg]

\* Whether two parsed parts are equal as elements of a set: Key members are
\* equal to themselves, KeyCode objects by identity.
SamePart(a, b) ==
    /\ a.tag = b.tag
    /\ IF a.tag = "Key" THEN a.name = b.name ELSE Is(a.kc, b.kc)

\* len(set(parsed_parts))
DistinctParts(parsed) ==
    Cardinality({i \in 1..Len(parsed) :
                    \A j \in 1..(i - 1) : ~SamePart(parsed[j], parsed[i])})

\* HotKey.parse
HotKey_parse(string) ==
    LET raw_parts == parts(string)
        each == [i \in 1..Len(raw_parts.parts) |-> parse(raw_parts.parts[i])]
        failed == {i \in 1..Len(each) : ~each[i].ok}
        parsed_parts == [i \in 1..Len(each) |-> each[i].key]
    IN IF ~raw_parts.ok
       THEN [ok |-> FALSE, parts |-> <<>>, exc |-> ValueError(StrArg(string))]
       ELSE IF failed # {}
       THEN [ok |-> FALSE, parts |-> <<>>,
             exc |-> ValueError(StrArg(
                 raw_parts.parts[CHOOSE i \in failed : \A j \in failed : i <= j]))]
       ELSE IF Len(parsed_parts) # DistinctParts(parsed_parts)
       THEN [ok |-> FALSE, parts |-> <<>>, exc |-> ValueError(StrArg(string))]
       ELSE [ok |-> TRUE, parts |-> parsed_parts, exc |-> NoException]

\* The key identifiers and the separator the strings are made of.
Pieces ==
    { <<"a">>, <<"A">>, <<"+">>,
      <<"<", "c", "t", "r", "l", ">">>, <<"<", "C", "T", "R", "L", ">">>,
      <<"<", "e", "n", "t", "e", "r", ">">>, <<"<", "1", ">">>, <<"<", "x", ">">> }

RECURSIVE Concatenations(_)
Concatenations(n) ==
    IF n = 0 THEN {<<>>}
    ELSE LET shorter == Concatenations(n - 1)
         IN shorter \cup {s \o piece : s \in shorter, piece \in Pieces}

ParseInit ==
    /\ input \in Concatenations(MaxPieces)
    /\ output = <<>>
    /\ call = [op |-> "init"]

HotKeyParse ==
    /\ output = <<>>
    /\ output' = <<HotKey_parse(input)>>
    /\ call' = [op |-> "parse"]
    /\ UNCHANGED input

InitParse ==
    /\ ParseInit /\ HotKeyIdle /\ ControllerIdle /\ GlobalIdle
    /\ PairIdle /\ LockIdle

NextParse == HotKeyParse /\ UNCHANGED nonFunctionVars

SpecParse == InitParse /\ [][NextParse]_vars

\* Whether character i of s is a '+' that starts a part (a key) rather than
\* separates two parts: in a run of '+' the characters alternate, the first
\* being a key at the start of the string and a separator elsewhere.
PlusIsKey(s, i) ==
    /\ s[i] = "+"
    /\ LET before == {j \in 1..(i - 1) : s[j] # "+"}
           last == IF before = {} THEN 0
                   ELSE CHOOSE j \in before : \A k \in before : k <= j
       IN IF last = 0 THEN (i - last) % 2 = 1 ELSE (i - last) % 2 = 0

PlusIsSeparator(s, i) == s[i] = "+" /\ ~PlusIsKey(s, i)

\* Whether s has an empty segment when split at every '+'.
HasEmptySegment(s) ==
    \/ s = <<>>
    \/ s[1] = "+"
    \/ s[Len(s)] = "+"
    \/ \E i \in 1..(Len(s) - 1) : s[i] = "+" /\ s[i + 1] = "+"

RaisedValueError(result) == ~result.ok /\ result.exc.type = "ValueError"

\* C14 as stated: HotKey.parse fails with ValueError for every string with an
\* empty segment when split on '+' (a leading, trailing or doubled '+') and
\* for the empty string.
C14_EmptySegmentFails ==
    (call.op = "parse" /\ HasEmptySegment(input)) => RaisedValueError(output[1])

\* C14 amended: HotKey.parse fails with ValueError for the empty string, for
\* a string that ends with a separating '+', and for a string in which a '+'
\* that starts a part is followed by a character other than '+'; a '+' that
\* starts a part and stands alone is the key '+', so a string t that parses
\* and does not end in '+', followed by '++', parses to the parts of t
\* followed by the key '+'.
C14_PlusStartingAPart ==
    call.op = "parse" =>
        /\ ( \/ input = <<>>
             \/ PlusIsSeparator(input, Len(input))
             \/ \E i \in 1..(Len(input) - 1) :
                    PlusIsKey(input, i) /\ input[i + 1] # "+" )
              => RaisedValueError(output[1])
        /\ ( /\ Len(input) >= 3
             /\ SubSeq(input, Len(input) - 1, Len(input)) = <<"+", "+">>
             /\ input[Len(input) - 2] # "+"
             /\ HotKey_parse(SubSeq(input, 1, Len(input) - 2)).ok )
              => /\ output[1].ok
                 /\ output[1].parts =
                        Append(HotKey_parse(SubSeq(input, 1, Len(input) - 2)).parts,
                               KeyCodeArg(from_char(<<"+">>)))

\* '<ctrl>++' was parsed.
C14_Witness ==
    /\ call.op = "parse"
    /\ input = <<"<", "c", "t", "r", "l", ">", "+", "+">>
    /\ output[1].ok
    /\ Len(output[1].parts) = 2

\* Whether two parsed parts are the same key: the same Key member, or key
\* codes with the same virtual key code, character and deadness.
SameKey(a, b) ==
    /\ a.tag = b.tag
    /\ a.name = b.name
    /\ a.kc.vk = b.kc.vk /\ a.kc.char = b.kc.char /\ a.kc.is_dead = b.kc.is_dead

\* The part of C15 that holds: a Key member named twice fails with ValueError.
C15_DuplicateModifierFails ==
    (call.op = "parse" /\ parts(input).ok) =>
        LET segments == parts(input).parts
        IN (\E i, j \in 1..Len(segments) :
                /\ i < j
                /\ parse(segments[i]).ok /\ parse(segments[j]).ok
                /\ parse(segments[i]).key.tag = "Key"
                /\ parse(segments[i]).key = parse(segments[j]).key)
             => RaisedValueError(output[1])

\* C15: HotKey.parse fails with ValueError whenever two segments resolve to
\* the same key, and otherwise returns one parsed part per segment, pairwise
\* distinct, in segment order.
C15_DuplicatesFail ==
    (call.op = "parse" /\ parts(input).ok) =>
        LET segments == parts(input).parts
            resolved == [i \in 1..Len(segments) |-> parse(segments[i])]
        IN (\A i \in 1..Len(segments) : resolved[i].ok) =>
              IF \E i, j \in 1..Len(segments) :
                     i < j /\ SameKey(resolved[i].key, resolved[j].key)
              THEN RaisedValueError(output[1])
              ELSE /\ output[1].ok
                   /\ output[1].parts = [i \in 1..Len(segments) |-> resolved[i].key]

\* 'a+A' was parsed.
C15_Witness ==
    /\ call.op = "parse"
    /\ input = <<"a", "+", "A">>
    /\ output[1].ok
    /\ Len(output[1].parts) = 2

-----------------------------------------------------------------------------
(* The mouse Controller of the Xorg backend *)

\* The bounds of a short integer: 0x7FFF and -0x7FFF - 1.
SHORT_MAX == 32767
SHORT_MIN == -SHORT_MAX - 1

\* _check_bounds with the ends of the range left out.
check_bounds_open(args) ==
    IF \E i \in 1..Len(args) : ~(SHORT_MIN < args[i] /\ args[i] < SHORT_MAX)
    THEN [ok |-> FALSE, values |-> <<>>, clicks |-> <<>>]
    ELSE [ok |-> TRUE, values |-> args, clicks |-> <<>>]

\* Controller._check_bounds: [ok |-> FALSE] stands for `raise ValueError(args)`.
\* The values are integers, and int(p) of an integer is that integer.
check_bounds(args) ==
    IF ~(\A i \in 1..Len(args) : SHORT_MIN <= args[i] /\ args[i] <= SHORT_MAX)
    THEN [ok |-> FALSE, values |-> <<>>, clicks |-> <<>>]
    ELSE [ok |-> TRUE, values |-> [i \in 1..Len(args) |-> args[i]], clicks |-> <<>>]

abs(number) == IF number < 0 THEN -number ELSE number

\* Controller.click of the base class, recorded as one call.
click(clicks, button, count) ==
    Append(clicks, [button |-> button, count |-> count])

\* _scroll issuing the horizontal clicks before the vertical ones.
scroll_dx_first(dx0, dy0) ==
    LET checked == check_bounds(<<dx0, dy0>>)
        dx == checked.values[1]
        dy == checked.values[2]
        horizontal == IF dx # 0
                      THEN click(<<>>, IF dx > 0 THEN "scroll_right" ELSE "scroll_left",
                                 abs(dx))
                      ELSE <<>>
    IN IF ~checked.ok THEN checked
       ELSE [checked EXCEPT !.clicks =
                IF dy # 0
                THEN click(horizontal, IF dy > 0 THEN "scroll_up" ELSE "scroll_down",
                           abs(dy))
                ELSE horizontal]

\* Controller._scroll
scroll(dx0, dy0) ==
    LET checked == check_bounds(<<dx0, dy0>>)
        dx == checked.values[1]
        dy == checked.values[2]
        vertical == IF dy # 0
                    THEN click(<<>>, IF dy > 0 THEN "scroll_up" ELSE "scroll_down",
                               abs(dy))
                    ELSE <<>>
    IN IF ~checked.ok THEN checked
       ELSE [checked EXCEPT !.clicks =
                IF dx # 0
                THEN click(vertical, IF dx > 0 THEN "scroll_right" ELSE "scroll_left",
                           abs(dx))
                ELSE vertical]

\* The values passed: around zero and around both ends of the range.
MouseValues ==
    UNION {(centre - MouseMargin)..(centre + MouseMargin) :
              centre \in {SHORT_MIN, 0, SHORT_MAX}}

MouseInit ==
    /\ input \in UNION {[1..n -> MouseValues] : n \in 0..MaxArgs}
    /\ output = <<>>
    /\ call = [op |-> "init"]

MouseCheckBounds ==
    /\ output = <<>>
    /\ output' = <<check_bounds(input)>>
    /\ call' = [op |-> "_check_bounds"]
    /\ UNCHANGED input

MouseScroll ==
    /\ output = <<>>
    /\ Len(input) = 2
    /\ output' = <<scroll(input[1], input[2])>>
    /\ call' = [op |-> "_scroll"]
    /\ UNCHANGED input

InitMouse ==
    /\ MouseInit /\ HotKeyIdle /\ ControllerIdle /\ GlobalIdle
    /\ PairIdle /\ LockIdle

NextMouse ==
    \/ MouseCheckBounds /\ UNCHANGED nonFunctionVars
    \/ MouseScroll /\ UNCHANGED nonFunctionVars

SpecMouse == InitMouse /\ [][NextMouse]_vars

\* C16: _check_bounds returns the values unchanged if and only if every value
\* lies in -32768..32767, and raises ValueError otherwise.
C16_CheckBounds ==
    call.op = "_check_bounds" =>
        /\ output[1].ok <=> (\A i \in 1..Len(input) : input[i] \in (-32768)..32767)
        /\ output[1].ok => output[1].values = input

\* (32767, -32768) was accepted.
C16_Witness ==
    /\ call.op = "_check_bounds"
    /\ input = <<32767, -32768>>
    /\ output[1].ok
    /\ output[1].values = <<32767, -32768>>

\* (32768, 0) was rejected.
C16_WitnessRejected ==
    /\ call.op = "_check_bounds"
    /\ input = <<32768, 0>>
    /\ ~output[1].ok

\* The clicks of one scroll component: none for zero, else |d| of the button
\* of its direction.
ClicksFor(d, positive, negative) ==
    IF d = 0 THEN <<>>
    ELSE << [button |-> IF d > 0 THEN positive ELSE negative,
             count |-> IF d > 0 THEN d ELSE -d] >>

\* C17: _scroll(dx, dy) with both values in range issues |dy| clicks of
\* scroll_up or scroll_down, then |dx| clicks of scroll_right or scroll_left,
\* none for a zero component; with a value out of range it raises ValueError
\* and issues no click.
C17_Scroll ==
    call.op = "_scroll" =>
        LET dx == input[1]
            dy == input[2]
        IN IF dx \in (-32768)..32767 /\ dy \in (-32768)..32767
           THEN /\ output[1].ok
                /\ output[1].clicks = ClicksFor(dy, "scroll_up", "scroll_down")
                                      \o ClicksFor(dx, "scroll_right", "scroll_left")
           ELSE /\ ~output[1].ok
                /\ output[1].clicks = <<>>

\* _scroll(-1, 2): two clicks of scroll_up, then one of scroll_left.
C17_Witness ==
    /\ call.op = "_scroll"
    /\ input = <<-1, 2>>
    /\ output[1].clicks = << [button |-> "scroll_up", count |-> 2],
                             [button |-> "scroll_left", count |-> 1] >>

-----------------------------------------------------------------------------
(* GlobalHotKeys *)

\* Listener.canonical for Key members: a variant of a modifier becomes its
\* base modifier, any other member is in no hotkey of the model.
canonical(key) ==
    IF \E m \in BaseModifiers : key \in VariantsOf(m)
    THEN CHOOSE m \in BaseModifiers : key \in VariantsOf(m)
    ELSE key

\* The modifiers the hotkeys are made of and the keys the listener reports.
GlobalModifiers == {"ctrl", "shift", "alt"}
GlobalKeys == {"ctrl_l", "ctrl_r", "shift", "shift_l", "alt", "enter"}

\* _on_press feeding the key to the hotkeys up to the first one it belongs to.
RECURSIVE GlobalHotKeys_on_press_first(_, _)
GlobalHotKeys_on_press_first(hks, key) ==
    IF hks = <<>> THEN [hotkeys |-> <<>>, fired |-> <<>>]
    ELSE LET r == HotKey_press(hks[1].keys, hks[1].state, canonical(key))
             rest == IF canonical(key) \in hks[1].keys
                     THEN [hotkeys |-> Tail(hks), fired |-> [i \in 1..(Len(hks) - 1) |-> 0]]
                     ELSE GlobalHotKeys_on_press_first(Tail(hks), key)
         IN [hotkeys |-> <<[keys |-> hks[1].keys, state |-> r.state]>> \o rest.hotkeys,
             fired |-> <<r.activated>> \o rest.fired]

\* GlobalHotKeys._on_press: the hotkeys after the loop and the number of
\* times each one's callback was called.
GlobalHotKeys_on_press(hks, key) ==
    [hotkeys |-> [i \in 1..Len(hks) |->
                     [keys |-> hks[i].keys,
                      state |-> HotKey_press(hks[i].keys, hks[i].state,
                                             canonical(key)).state]],
     fired |-> [i \in 1..Len(hks) |->
                   HotKey_press(hks[i].keys, hks[i].state, canonical(key)).activated]]

\* GlobalHotKeys._on_release
GlobalHotKeys_on_release(hks, key) ==
    [hotkeys |-> [i \in 1..Len(hks) |->
                     [keys |-> hks[i].keys,
                      state |-> HotKey_release(hks[i].state, canonical(key))]],
     fired |-> [i \in 1..Len(hks) |-> 0]]

\* GlobalHotKeys.__init__: one HotKey per entry of the mapping, none pressed.
GlobalInit ==
    /\ hotkeys \in [1..MaxHotKeys ->
                       {[keys |-> ks, state |-> {}] : ks \in SUBSET GlobalModifiers \ {{}}}]
    /\ fired = [i \in 1..MaxHotKeys |-> 0]
    /\ call = [op |-> "init", key |-> "none"]

GlobalOnPress(key) ==
    /\ hotkeys' = GlobalHotKeys_on_press(hotkeys, key).hotkeys
    /\ fired' = GlobalHotKeys_on_press(hotkeys, key).fired
    /\ call' = [op |-> "on_press", key |-> key]

GlobalOnRelease(key) ==
    /\ hotkeys' = GlobalHotKeys_on_release(hotkeys, key).hotkeys
    /\ fired' = GlobalHotKeys_on_release(hotkeys, key).fired
    /\ call' = [op |-> "on_release", key |-> key]

InitGlobal ==
    /\ GlobalInit /\ HotKeyIdle /\ ControllerIdle /\ FunctionIdle
    /\ PairIdle /\ LockIdle

NextGlobal ==
    \E key \in GlobalKeys :
        \/ GlobalOnPress(key) /\ UNCHANGED nonGlobalVars
        \/ GlobalOnRelease(key) /\ UNCHANGED nonGlobalVars

SpecGlobal == InitGlobal /\ [][NextGlobal]_vars

\* C18: on every press and release event the canonical key reaches every
\* registered hotkey: each hotkey that has the key, did not hold it and holds
\* all its keys with it fires exactly once, and no other fires, whatever the
\* state of the other hotkeys; each hotkey's state follows the event.
C18_EveryHotKeyIsFed ==
    [][ call'.op \in {"on_press", "on_release"} =>
          LET k == canonical(call'.key) IN
          \A i \in 1..Len(hotkeys) :
              /\ hotkeys'[i].keys = hotkeys[i].keys
              /\ IF call'.op = "on_press"
                 THEN /\ hotkeys'[i].state =
                            IF k \in hotkeys[i].keys
                            THEN hotkeys[i].state \cup {k} ELSE hotkeys[i].state
                      /\ fired'[i] =
                            IF /\ k \in hotkeys[i].keys
                               /\ k \notin hotkeys[i].state
                               /\ hotkeys[i].state \cup {k} = hotkeys[i].keys
                            THEN 1 ELSE 0
                 ELSE /\ hotkeys'[i].state = hotkeys[i].state \ {k}
                      /\ fired'[i] = 0 ]_vars

\* One press completed two hotkeys of different combinations: both fired.
C18_Witness ==
    /\ call.op = "on_press"
    /\ Len(hotkeys) >= 2
    /\ hotkeys[1].keys # hotkeys[2].keys
    /\ fired[1] = 1
    /\ fired[2] = 1

-----------------------------------------------------------------------------
(* The keys held down through _handle *)

\* A key code as the platform sees it: its fields, not the object.
KeyCodeValue(key) == [vk |-> key.vk, char |-> key.char, is_dead |-> key.is_dead]

\* The key codes held down after the _handle calls of `log`, starting from
\* the key codes `before`.
RECURSIVE DownAfter(_, _)
DownAfter(before, log) ==
    IF log = <<>> THEN before
    ELSE DownAfter(IF log[1].is_press
                   THEN before \cup {KeyCodeValue(log[1].key)}
                   ELSE before \ {KeyCodeValue(log[1].key)},
                   Tail(log))

\* The keys pressed and released in pairs.
PairArgs ==
    {StrArg(<<"a">>), KeyArg("shift_l"), KeyArg("enter"),
     KeyCodeArg(from_dead(<<"~">>))}

PairedPress(arg) ==
    /\ ControllerPress(arg)
    /\ owed' = owed \cup {arg}
    /\ down' = DownAfter(down, handled')

\* A key is released only after it was pressed.
PairedRelease(arg) ==
    /\ arg \in owed
    /\ ControllerRelease(arg)
    /\ owed' = owed \ {arg}
    /\ down' = DownAfter(down, handled')

InitPaired ==
    /\ ControllerInit /\ HotKeyIdle /\ GlobalIdle /\ FunctionIdle
    /\ PairIdle /\ LockIdle

NextPaired ==
    \/ \E arg \in PairArgs : PairedPress(arg) /\ UNCHANGED nonPairVars
    \/ \E arg \in PairArgs : PairedRelease(arg) /\ UNCHANGED nonPairVars

SpecPaired == InitPaired /\ [][NextPaired]_vars

\* C25: when each release(k) follows a press(k), every _handle(x, release)
\* call comes after a _handle(x, press) call of the same key code x that has
\* not been released since.
C25_ReleasedWasPressed ==
    [][ \A i \in 1..Len(handled') :
            ~handled'[i].is_press =>
                KeyCodeValue(handled'[i].key)
                    \in DownAfter(down, SubSeq(handled', 1, i - 1)) ]_vars

\* After press(dead '~'), press('a'), release('a'): 'a' was released through
\* _handle and the key pressed through _handle is still down.
C25_Witness ==
    /\ call.op = "release"
    /\ call.arg = StrArg(<<"a">>)
    /\ handled = << [key |-> from_char(<<"a">>), is_press |-> FALSE] >>
    /\ KeyCodeValue(from_char(<<"U+00E3">>)) \in down
    /\ KeyCodeValue(from_char(<<"a">>)) \notin down

-----------------------------------------------------------------------------
(* The Controller used by two threads *)

\* One step of a thread on the Controller's lock or fields.  `skip` is the
\* number of steps left out after a read that finds the field true.
Instruction(op, field, modifier, key, skip) ==
    [op |-> op, field |-> field, modifier |-> modifier, key |-> key, skip |-> skip]

Acquire == Instruction("acquire", "_modifiers_lock", "", None, 0)
Release == Instruction("release", "_modifiers_lock", "", None, 0)
Read(field) == Instruction("read", field, "", None, 0)

\* The modifiers property entered without the lock.
modifiers_property_unlocked(body) == <<Read("modifiers")>> \o body

\* `with self.modifiers as modifiers: body`: the lock is taken, the set is
\* read and handed to the body, and the lock is given back.
modifiers_property(body) == <<Acquire, Read("modifiers")>> \o body \o <<Release>>

\* alt_pressed, alt_gr_pressed, ctrl_pressed: `Key.<base> in modifiers`.
pressed_program == modifiers_property(<<Read("modifiers")>>)

\* shift_pressed reading the caps-lock flag inside the lock.
shift_pressed_program_locked ==
    modifiers_property(<<Read("caps_lock"), Read("modifiers")>>)

\* shift_pressed: `if self._caps_lock: return True`, then the modifiers.
shift_pressed_program ==
    <<Instruction("read", "caps_lock", "", None, Len(pressed_program))>>
        \o pressed_program

\* Controller._resolve: shift_pressed is asked for a KeyCode with a character.
ResolveProgram(arg) ==
    IF arg.tag = "KeyCode" /\ arg.kc.char # NoChar
    THEN shift_pressed_program
    ELSE <<>>

\* Controller._dispatch in the Controller state `st`.
DispatchProgram(st, key, is_press) ==
    LET modifier == as_modifier(key)
        joined == join(st.dead_key, key)
        key2 == IF st.dead_key # None /\ joined.ok THEN joined.key ELSE key
    IN (IF modifier = "None" THEN <<>>
        ELSE modifiers_property(
                 <<Instruction(IF is_press THEN "add" ELSE "discard",
                               "modifiers", modifier, None, 0)>>))
       \o (IF ~is_press THEN <<>>
           ELSE (IF Is(key, KeyValue("caps_lock"))
                 THEN <<Read("caps_lock"),
                        Instruction("toggle", "caps_lock", "", None, 0)>>
                 ELSE <<>>)
                \o <<Read("dead_key")>>
                \o (IF st.dead_key = None THEN <<>>
                    ELSE <<Read("dead_key")>>
                         \o (IF joined.ok THEN <<>>
                             ELSE <<Read("dead_key"), Read("dead_key")>>)
                         \o <<Instruction("set", "dead_key", "", None, 0)>>)
                \o (IF key2.is_dead
                    THEN <<Instruction("set", "dead_key", "", key2, 0)>>
                    ELSE <<>>))

\* Controller.press and Controller.release
TouchProgram(st, arg, is_press) ==
    ResolveProgram(arg) \o DispatchProgram(st, Resolve(st, arg).key, is_press)

\* Controller.type from character i on, when no character fails.
RECURSIVE TypeProgram(_, _, _)
TypeProgram(st, text, i) ==
    IF i > Len(text) THEN <<>>
    ELSE LET character == StrArg(<<text[i]>>)
             pressed == Touch(st, character, TRUE)
         IN TouchProgram(st, character, TRUE)
            \o TouchProgram(pressed, character, FALSE)
            \o TypeProgram(Touch(pressed, character, FALSE), text, i + 1)

\* The keys and the text the calling thread passes, and the properties the
\* other thread reads.
LockArgs ==
    {KeyArg("shift_l"), KeyArg("caps_lock"), StrArg(<<"a">>),
     KeyCodeArg(from_char(<<"a">>)), KeyCodeArg(from_dead(<<"~">>))}
LockTexts == {<<"a">>}
Properties == {"alt_pressed", "alt_gr_pressed", "ctrl_pressed", "shift_pressed"}

LockInit ==
    /\ PairIdle /\ LockIdle
    /\ call = [thread |-> "none", op |-> "init", arg |-> NoArg, text |-> <<>>]

\* One thread calls press or release.
LockTouch(arg, is_press) ==
    /\ program.caller = <<>>
    /\ program' = [program EXCEPT
                      !.caller = TouchProgram(ControllerState, arg, is_press)]
    /\ call' = [thread |-> "caller", op |-> IF is_press THEN "press" ELSE "release",
                arg |-> arg, text |-> <<>>]
    /\ UNCHANGED <<controllerVars, lock, access>>

\* One thread calls type.
LockType(text) ==
    /\ program.caller = <<>>
    /\ program' = [program EXCEPT !.caller = TypeProgram(ControllerState, text, 1)]
    /\ call' = [thread |-> "caller", op |-> "type", arg |-> NoArg, text |-> text]
    /\ UNCHANGED <<controllerVars, lock, access>>

\* The other thread reads one of the *_pressed properties.
LockProperty(property) ==
    /\ program.reader = <<>>
    /\ program' = [program EXCEPT
                      !.reader = IF property = "shift_pressed"
                                 THEN shift_pressed_program
                                 ELSE pressed_program]
    /\ call' = [thread |-> "reader", op |-> property, arg |-> NoArg, text |-> <<>>]
    /\ UNCHANGED <<controllerVars, lock, access>>

\* A thread makes its next step; it waits for a lock another thread holds.
LockStep(thread) ==
    /\ program[thread] # <<>>
    /\ LET step == Head(program[thread])
           rest == Tail(program[thread])
       IN /\ step.op = "acquire" => lock.owner \in {"none", thread}
          /\ lock' = CASE step.op = "acquire" ->
                            [owner |-> thread, count |-> lock.count + 1]
                       [] step.op = "release" ->
                            [owner |-> IF lock.count = 1 THEN "none" ELSE thread,
                             count |-> lock.count - 1]
                       [] OTHER -> lock
          /\ program' = [program EXCEPT ![thread] =
                            IF step.op = "read" /\ step.field = "caps_lock" /\ caps_lock
                            THEN SubSeq(rest, step.skip + 1, Len(rest))
                            ELSE rest]
          /\ access' = [thread |-> thread, op |-> step.op, field |-> step.field,
                        locked |-> lock.owner = thread]
          /\ modifiers' = CASE step.op = "add" -> modifiers \cup {step.modifier}
                            [] step.op = "discard" -> modifiers \ {step.modifier}
                            [] OTHER -> modifiers
          /\ caps_lock' = IF step.op = "toggle" THEN ~caps_lock ELSE caps_lock
          /\ dead_key' = IF step.op = "set" THEN step.key ELSE dead_key
    /\ UNCHANGED <<block, held, dispatched, handled, exc, call>>

InitLock ==
    /\ ControllerIdle /\ HotKeyIdle /\ GlobalIdle /\ FunctionIdle
    /\ LockInit

NextLock ==
    \/ \E arg \in LockArgs : LockTouch(arg, TRUE) /\ UNCHANGED nonLockVars
    \/ \E arg \in LockArgs : LockTouch(arg, FALSE) /\ UNCHANGED nonLockVars
    \/ \E text \in LockTexts : LockType(text) /\ UNCHANGED nonLockVars
    \/ \E property \in Properties : LockProperty(property) /\ UNCHANGED nonLockVars
    \/ \E thread \in {"caller", "reader"} : LockStep(thread) /\ UNCHANGED nonLockVars

SpecLock == InitLock /\ [][NextLock]_vars

\* C23: every read and every write of the modifier set is made by a thread
\* that holds the modifier lock.
C23_ModifiersUnderLock ==
    access.field = "modifiers" => (access.locked /\ lock.owner = access.thread)

\* The reading thread read the modifier set while press or release was under
\* way in the other thread.
C23_Witness ==
    /\ access.thread = "reader"
    /\ access.field = "modifiers"
    /\ access.locked
    /\ program.caller # <<>>
    /\ \E i \in 1..Len(program.caller) : program.caller[i].field = "modifiers"

-----------------------------------------------------------------------------
(* The mouse Listener of the Xorg backend *)

\* The value of the last member of Button, button30.
LastButton == 30

\* The values of the named members of Button.
ButtonValue ==
    [left |-> 1, middle |-> 2, right |-> 3, scroll_up |-> 4, scroll_down |-> 5,
     scroll_left |-> 6, scroll_right |-> 7]

\* Button.unknown, whose value is None.
Button_unknown == [name |-> "unknown", value |-> -1]

\* Button(detail): the member of that value; button8..button30 are told
\* apart by their values.  [ok |-> FALSE] stands for ValueError.
Button(detail) ==
    IF \E name \in DOMAIN ButtonValue : ButtonValue[name] = detail
    THEN [ok |-> TRUE,
          member |-> [name |-> CHOOSE name \in DOMAIN ButtonValue :
                                   ButtonValue[name] = detail,
                      value |-> detail]]
    ELSE IF detail > ButtonValue.scroll_right /\ detail <= LastButton
    THEN [ok |-> TRUE, member |-> [name |-> "button", value |-> detail]]
    ELSE [ok |-> FALSE, member |-> Button_unknown]

\* Listener._button
Listener_button(detail) ==
    IF Button(detail).ok THEN Button(detail).member ELSE Button_unknown

\* Listener._SCROLL_BUTTONS.get(detail, None): <<>> stands for None.
SCROLL_BUTTONS(detail) ==
    CASE detail = ButtonValue.scroll_up -> <<0, 1>>
      [] detail = ButtonValue.scroll_down -> <<0, -1>>
      [] detail = ButtonValue.scroll_right -> <<1, 0>>
      [] detail = ButtonValue.scroll_left -> <<-1, 0>>
      [] OTHER -> <<>>

\* The callbacks of the listener, recorded as calls.
on_move(x, y) ==
    [name |-> "on_move", x |-> x, y |-> y, dx |-> 0, dy |-> 0,
     button |-> Button_unknown, pressed |-> FALSE]
on_click(x, y, button, pressed) ==
    [name |-> "on_click", x |-> x, y |-> y, dx |-> 0, dy |-> 0,
     button |-> button, pressed |-> pressed]
on_scroll(x, y, dx, dy) ==
    [name |-> "on_scroll", x |-> x, y |-> y, dx |-> dx, dy |-> dy,
     button |-> Button_unknown, pressed |-> FALSE]

\* Listener._handle reporting the release of a scroll button as a click.
Listener_handle_every_release(event) ==
    IF event.type = "ButtonPress"
    THEN IF SCROLL_BUTTONS(event.detail) # <<>>
         THEN <<on_scroll(event.root_x, event.root_y,
                          SCROLL_BUTTONS(event.detail)[1],
                          SCROLL_BUTTONS(event.detail)[2])>>
         ELSE <<on_click(event.root_x, event.root_y,
                         Listener_button(event.detail), TRUE)>>
    ELSE IF event.type = "ButtonRelease"
    THEN <<on_click(event.root_x, event.root_y, Listener_button(event.detail), FALSE)>>
    ELSE <<on_move(event.root_x, event.root_y)>>

\* Listener._handle: the callbacks it invokes, in order.
Listener_handle(event) ==
    IF event.type = "ButtonPress"
    THEN IF SCROLL_BUTTONS(event.detail) # <<>>
         THEN <<on_scroll(event.root_x, event.root_y,
                          SCROLL_BUTTONS(event.detail)[1],
                          SCROLL_BUTTONS(event.detail)[2])>>
         ELSE <<on_click(event.root_x, event.root_y,
                         Listener_button(event.detail), TRUE)>>
    ELSE IF event.type = "ButtonRelease"
    THEN IF SCROLL_BUTTONS(event.detail) = <<>>
         THEN <<on_click(event.root_x, event.root_y,
                         Listener_button(event.detail), FALSE)>>
         ELSE <<>>
    ELSE <<on_move(event.root_x, event.root_y)>>

\* The raw events: their types, button codes up to past the last member, and
\* pointer positions.
EventTypes == {"ButtonPress", "ButtonRelease", "MotionNotify", "EnterNotify"}

Events ==
    [type : EventTypes, detail : 0..(LastButton + MouseMargin),
     root_x : {0, 3}, root_y : {0, 5}]

ListenerInit ==
    /\ input \in {<<event>> : event \in Events}
    /\ output = <<>>
    /\ call = [op |-> "init"]

ListenerHandle ==
    /\ call.op = "init"
    /\ output' = Listener_handle(input[1])
    /\ call' = [op |-> "_handle"]
    /\ UNCHANGED input

InitListener ==
    /\ ListenerInit /\ HotKeyIdle /\ ControllerIdle /\ GlobalIdle
    /\ PairIdle /\ LockIdle

NextListener == ListenerHandle /\ UNCHANGED nonFunctionVars

SpecListener == InitListener /\ [][NextListener]_vars

\* C27: each raw button event gives at most one callback: the press of a
\* scroll button (4..7) gives on_scroll once with the unit direction of the
\* button and no on_click; its release gives nothing; the press or release
\* of any other button gives on_click once with pressed true or false, with
\* Button.unknown for a code that has no member; any other event gives
\* on_move.
C27_OneCallbackPerEvent ==
    call.op = "_handle" =>
        LET event == input[1]
            x == event.root_x
            y == event.root_y
            isButton == event.type \in {"ButtonPress", "ButtonRelease"}
            pressed == event.type = "ButtonPress"
        IN /\ Len(output) <= 1
           /\ (isButton /\ event.detail \in 4..7 /\ pressed) =>
                 /\ Len(output) = 1
                 /\ output[1].name = "on_scroll"
                 /\ <<output[1].x, output[1].y>> = <<x, y>>
                 /\ <<output[1].dx, output[1].dy>> =
                       CASE event.detail = 4 -> <<0, 1>>
                         [] event.detail = 5 -> <<0, -1>>
                         [] event.detail = 6 -> <<-1, 0>>
                         [] event.detail = 7 -> <<1, 0>>
           /\ (isButton /\ event.detail \in 4..7 /\ ~pressed) => output = <<>>
           /\ (isButton /\ event.detail \notin 4..7) =>
                 /\ Len(output) = 1
                 /\ output[1].name = "on_click"
                 /\ <<output[1].x, output[1].y>> = <<x, y>>
                 /\ output[1].pressed = pressed
                 /\ IF event.detail \in 1..30
                    THEN output[1].button.value = event.detail
                    ELSE output[1].button.name = "unknown"
           /\ ~isButton =>
                 /\ Len(output) = 1
                 /\ output[1].name = "on_move"
                 /\ <<output[1].x, output[1].y>> = <<x, y>>

\* The release of scroll_down was handled: no callback.
C27_Witness ==
    /\ call.op = "_handle"
    /\ input[1].type = "ButtonRelease"
    /\ input[1].detail = 5
    /\ output = <<>>

\* The press of a button with no member was handled: a click of unknown.
C27_WitnessUnknown ==
    /\ call.op = "_handle"
    /\ input[1].type = "ButtonPress"
    /\ input[1].detail = 31
    /\ Len(output) = 1
    /\ output[1].button.name = "unknown"

====
